---- MODULE Spec2Model ----
(***************************************************************************)
(* A model of the jujupy 2.0 client core:                                  *)
(*   - JujuClient / JujuModel   (acceptancetests/jujupy2.0/client2.0.py)   *)
(*   - until_timeout            (acceptancetests/jujupy2.0/utility.py)     *)
(*   - wait_for_port            (acceptancetests/jujupy2.0/utility.py)     *)
(*                                                                         *)
(* Time is counted in whole seconds.  The external tool, the resolver and  *)
(* the socket layer are the environment: each call into them draws its     *)
(* outcome from the set of outcomes that call can have.                    *)
(***************************************************************************)
EXTENDS Integers, Sequences, FiniteSets, TLC

VARIABLES
    heap,          \* JujuModel objects by identity: heap[i] is object i's name
    models,        \* JujuClient.models: a set of object identities
    active_model,  \* JujuClient.active_model: an object identity, or None
    last,          \* the last client call: its arguments, outcome, pre-state
    clock,         \* what datetime.now() returns, in seconds
    ut,            \* an until_timeout object: [timeout, start]
    polls,         \* the results of the successive next() calls on ut
    wfp,           \* the frame of a wait_for_port call
    scn            \* the frame of an assess_multimodel run

vars == <<heap, models, active_model, last, clock, ut, polls, wfp, scn>>

(***************************************************************************)
(* Bounds                                                                  *)
(***************************************************************************)
MaxHandles == 4     \* JujuModel objects constructed in one run
MaxTime == 7        \* the clock stops advancing here
MaxTimeout == 6     \* the largest timeout a counter is built with
MaxPolls == 3       \* next() calls recorded on one counter

None == 0
Names == {"m1", "m2"}
Handles == 1..MaxHandles

(***************************************************************************)
(* client2.0.py                                                            *)
(***************************************************************************)

\* juju evaluates call('juju', command, args).decode('UTF-8') inside a try
\* that catches CalledProcessError only.  The expression is modelled by what
\* the command runner it names does with the tool's exit status:
\*   "exit0"  the tool ran and exited 0;
\*   "exit1"  the tool ran and exited non-zero;
\*   "error"  the expression raised something that is not a
\*            CalledProcessError (OSError from a tool that cannot be started,
\*            TypeError or AttributeError from the expression itself).
\* Every run in which each call ends in "error" is a run of the model, so
\* what holds of the model holds of the calls that fail that way too.
ToolOutcomes == {"exit0", "exit1", "error"}

\* juju running the tool a second time when it exited non-zero.
jujuRetries(get_output, o) ==
    [ raised |-> IF o = "error" THEN "Error"
                 ELSE IF get_output /\ o = "exit1" THEN "CalledProcessError"
                 ELSE "none",
      logged |-> get_output /\ o = "exit1",
      runs   |-> IF o = "exit1" THEN 2 ELSE 1 ]

\* subprocess.call returns the exit status and never raises
\* CalledProcessError; subprocess.check_output raises it on a non-zero exit.
\* juju logs a CalledProcessError and raises it again; anything else passes
\* through it.
juju(get_output, o) ==
    [ raised |-> IF o = "error" THEN "Error"
                 ELSE IF get_output /\ o = "exit1" THEN "CalledProcessError"
                 ELSE "none",
      logged |-> get_output /\ o = "exit1",
      runs   |-> 1 ]

\* JujuModel defines neither __eq__ nor __hash__: two handles are equal, and
\* are the same set member, iff they are the same object.
\* Handles compared by name instead of by identity.
SameHandleByName(nm, a, b) == nm[a] = nm[b]

\* nm[i] is the name of object i.
SameHandle(nm, a, b) == a = b

\* set.add: the set is unchanged when it holds an element equal to h.
SetAdd(nm, S, h) ==
    IF \E x \in S : SameHandle(nm, x, h) THEN S ELSE S \cup {h}

LastRec(op, name, target, o, r) ==
    [ op |-> op, name |-> name, target |-> target, out |-> o,
      raised |-> r.raised, logged |-> r.logged, runs |-> r.runs,
      models0 |-> models, active0 |-> active_model ]

\* JujuClient.__init__: the discovery of the current models and of the
\* active model are placeholders that find nothing.
ClientInit ==
    /\ heap = << >>
    /\ models = {}
    /\ active_model = None
    /\ last = [ op |-> "init", name |-> "", target |-> None, out |-> "exit0",
                raised |-> "none", logged |-> FALSE, runs |-> 0,
                models0 |-> {}, active0 |-> None ]

\* A caller constructs a handle of its own: JujuModel(n).
NewHandle(n) ==
    /\ Len(heap) < MaxHandles
    /\ heap' = Append(heap, n)
    /\ last' = LastRec("JujuModel", n, Len(heap) + 1, "exit0",
                       [raised |-> "none", logged |-> FALSE, runs |-> 0])
    /\ UNCHANGED <<models, active_model, clock, ut, polls, wfp, scn>>

\* JujuClient.add_model(model).  new_model is constructed before the command
\* runs; when juju raises, the frame's reference to it is the only one and
\* the object is gone with the frame.
add_model(n, o) ==
    /\ Len(heap) < MaxHandles
    /\ LET new_model == Len(heap) + 1
           r == juju(FALSE, o)
       IN  IF r.raised # "none"
           THEN /\ last' = LastRec("add_model", n, None, o, r)
                /\ UNCHANGED <<heap, models, active_model>>
           ELSE /\ heap' = Append(heap, n)
                /\ last' = LastRec("add_model", n, new_model, o, r)
                /\ models' = SetAdd(heap', models, new_model)
                /\ active_model' = new_model
    /\ UNCHANGED <<clock, ut, polls, wfp, scn>>

\* switch_model that also inserts its target into models.
switch_modelInserts(t, o) ==
    /\ t \in 1..Len(heap)
    /\ LET r == juju(FALSE, o)
       IN  /\ last' = LastRec("switch_model", heap[t], t, o, r)
           /\ IF r.raised # "none"
              THEN UNCHANGED <<models, active_model>>
              ELSE active_model' = t /\ models' = models \cup {t}
           /\ UNCHANGED <<heap, clock, ut, polls, wfp, scn>>

\* JujuClient.switch_model(target_model)
switch_model(t, o) ==
    /\ t \in 1..Len(heap)
    /\ LET r == juju(FALSE, o)
       IN  /\ last' = LastRec("switch_model", heap[t], t, o, r)
           /\ IF r.raised # "none"
              THEN UNCHANGED active_model
              ELSE active_model' = t
           /\ UNCHANGED <<heap, models, clock, ut, polls, wfp, scn>>

\* JujuClient.deploy(charm, num, to)
deploy(o) ==
    /\ LET r == juju(FALSE, o)
       IN  last' = LastRec("deploy", "", None, o, r)
    /\ UNCHANGED <<heap, models, active_model, clock, ut, polls, wfp, scn>>

\* JujuClient.status()
status(o) ==
    /\ LET r == juju(FALSE, o)
       IN  last' = LastRec("status", "", None, o, r)
    /\ UNCHANGED <<heap, models, active_model, clock, ut, polls, wfp, scn>>

\* JujuClient.juju(command, args, get_output) called directly
juju_call(get_output, o) ==
    /\ LET r == juju(get_output, o)
       IN  last' = LastRec("juju", "", None, o, r)
    /\ UNCHANGED <<heap, models, active_model, clock, ut, polls, wfp, scn>>

(***************************************************************************)
(* utility.py: until_timeout                                               *)
(***************************************************************************)
Timeouts == (0 - 1)..MaxTimeout
Times == 0..MaxTime

\* until_timeout.__init__(timeout, start): start defaults to now().
until_timeout(timeout, hasStart, start, now) ==
    [ made |-> TRUE, timeout |-> timeout,
      start |-> IF hasStart THEN start ELSE now ]

\* next() stopping only once the remaining time is negative.
nextStopsLate(u, now) ==
    LET remaining == u.timeout - (now - u.start)
    IN  IF remaining < 0
        THEN [stop |-> TRUE, value |-> 0]
        ELSE [stop |-> FALSE, value |-> remaining]

\* next() returning the whole timeout while the deadline has not passed.
nextIgnoresElapsed(u, now) ==
    IF u.timeout - (now - u.start) <= 0
    THEN [stop |-> TRUE, value |-> 0]
    ELSE [stop |-> FALSE, value |-> u.timeout]

\* next() that never raises StopIteration.
nextNeverStops(u, now) ==
    LET remaining == u.timeout - (now - u.start)
    IN  [stop |-> FALSE, value |-> IF remaining > 0 THEN remaining ELSE 1]

\* next() of a counter that starts over once its deadline is behind it.
nextRestarts(u, now) ==
    LET elapsed == now - u.start
    IN  IF u.timeout <= 0 \/ elapsed = u.timeout
        THEN [stop |-> TRUE, value |-> 0]
        ELSE [stop |-> FALSE, value |-> u.timeout - (elapsed % u.timeout)]

\* until_timeout.next(): a remaining number of seconds, or StopIteration.
next(u, now) ==
    LET elapsed == now - u.start
        remaining == u.timeout - elapsed
    IN  IF remaining <= 0
        THEN [stop |-> TRUE, value |-> 0]
        ELSE [stop |-> FALSE, value |-> remaining]

TimerInit ==
    /\ clock = 0
    /\ ut = [made |-> FALSE, timeout |-> 0, start |-> 0]
    /\ polls = << >>

\* The clock moves on; readings never go back.
Tick ==
    /\ clock < MaxTime
    /\ clock' = clock + 1
    /\ UNCHANGED <<scn, heap, models, active_model, last, ut, polls, wfp, scn>>

\* until_timeout(timeout)
UtNew(timeout) ==
    /\ ~ut.made
    /\ ut' = until_timeout(timeout, FALSE, 0, clock)
    /\ UNCHANGED <<scn, heap, models, active_model, last, clock, polls, wfp, scn>>

\* until_timeout(timeout, start)
UtNewAt(timeout, start) ==
    /\ ~ut.made
    /\ ut' = until_timeout(timeout, TRUE, start, clock)
    /\ UNCHANGED <<scn, heap, models, active_model, last, clock, polls, wfp, scn>>

\* One call of next() on the counter, at the clock's present reading.
UtNext ==
    /\ ut.made
    /\ Len(polls) < MaxPolls
    /\ LET r == next(ut, clock)
       IN  polls' = Append(polls, [at |-> clock, stop |-> r.stop,
                                   value |-> r.value])
    /\ UNCHANGED <<scn, heap, models, active_model, last, clock, ut, wfp>>

CounterNext ==
    \/ Tick
    \/ \E t \in Timeouts : UtNew(t)
    \/ \E t \in Timeouts, s \in Times : UtNewAt(t, s)
    \/ UtNext

(***************************************************************************)
(* utility.py: wait_for_port                                               *)
(***************************************************************************)

\* errno values of a socket.error raised by socket.getaddrinfo
ResolveErrnos == {"EAI_NODATA", "WSANO_DATA", "EAI_NONAME", "EAI_AGAIN"}
\* errno values of a socket.error raised by conn.connect
ConnectErrnos == {"ECONNREFUSED", "ENETUNREACH", "ETIMEDOUT", "EHOSTUNREACH",
                  "ECONNRESET", "EACCES"}

\* A resolution handler that raises every error again.
ResolveAlwaysFatal(e) == TRUE

\* A resolution handler that never raises again.
ResolveNeverFatal(e) == FALSE

\* if e.errno not in (socket.EAI_NODATA, WSANO_DATA): raise
ResolveFatal(e) == e \notin {"EAI_NODATA", "WSANO_DATA"}

\* A connect handler that never raises again.
ConnectNeverFatal(e) == FALSE

\* if e.errno not in (ECONNREFUSED, ENETUNREACH, ETIMEDOUT, EHOSTUNREACH): raise
ConnectFatal(e) ==
    e \notin {"ECONNREFUSED", "ENETUNREACH", "ETIMEDOUT", "EHOSTUNREACH"}

\* A loop that returns on every "closed" observation.
OnClosedReturns(closed) == "return"

\* What the loop does on an observation that means "closed".
OnClosed(closed) == IF closed THEN "return" ELSE "retry"

\* A loop that returns on every successful connect.
OnOpenReturns(closed) == "return"

\* What the loop does after a successful connect and conn.close().
OnOpen(closed) == IF ~closed THEN "return" ELSE "sleep"

\* A connect timeout with no floor.
ConnTimeoutNoFloor(remaining) == remaining

\* conn.settimeout(max(remaining or 0, 5))
ConnTimeout(remaining) ==
    LET r == IF remaining = 0 THEN 0 ELSE remaining
    IN  IF r > 5 THEN r ELSE 5

\* The timeouts wait_for_port is called with: none at all, short ones, and
\* one that leaves more than the connect timeout's floor of 5 seconds.
PortTimeouts == {0, 1, 2, MaxTimeout}

\* The counters of the frame's history stop counting at MaxPolls.
Sat(n) == IF n < MaxPolls THEN n + 1 ELSE n

PortInit ==
    wfp = [ pc |-> "idle", closed |-> FALSE, remaining |-> 0,
            conn_timeout |-> 0, npolls |-> 0, attempts |-> 0, closes |-> 0,
            slept |-> 0, obs1 |-> "", obs |-> "", allRefused |-> TRUE,
            allConnected |-> TRUE, result |-> "", err |-> "" ]

\* The frame after the present poll observed o.
Observe(f, o) ==
    [ f EXCEPT !.obs = o,
               !.obs1 = IF f.npolls = 1 /\ f.obs1 = "" THEN o ELSE f.obs1,
               !.allRefused = f.allRefused /\ o = "ECONNREFUSED",
               !.allConnected = f.allConnected /\ o = "connected" ]

Return(f) == [f EXCEPT !.pc = "done", !.result = "returned"]
Raise(f, e) == [f EXCEPT !.pc = "done", !.result = "raised", !.err = e]
Continue(f) == [f EXCEPT !.pc = "next"]

\* Where a "closed" observation leaves the frame.
Closed(f) == IF OnClosed(f.closed) = "return" THEN Return(f) ELSE Continue(f)

\* wait_for_port(host, port, closed, timeout): the counter is built.
WfpCall(closed, timeout) ==
    /\ wfp.pc = "idle"
    /\ clock + timeout <= MaxTime
    /\ ut' = until_timeout(timeout, FALSE, 0, clock)
    /\ wfp' = [wfp EXCEPT !.pc = "next", !.closed = closed]
    /\ UNCHANGED <<scn, heap, models, active_model, last, clock, polls>>

\* for remaining in until_timeout(timeout): ... else PortTimeoutError
WfpNext ==
    /\ wfp.pc = "next"
    /\ LET r == next(ut, clock)
       IN  wfp' = IF r.stop
                  THEN [wfp EXCEPT !.pc = "done",
                                   !.result = "PortTimeoutError"]
                  ELSE [wfp EXCEPT !.pc = "resolve",
                                   !.remaining = r.value,
                                   !.npolls = Sat(wfp.npolls)]
    /\ UNCHANGED <<scn, heap, models, active_model, last, clock, ut, polls>>

\* socket.getaddrinfo returns an address other than 0.0.0.0
WfpResolved ==
    /\ wfp.pc = "resolve"
    /\ wfp' = [wfp EXCEPT !.pc = "connect",
                          !.conn_timeout = ConnTimeout(wfp.remaining)]
    /\ UNCHANGED <<scn, heap, models, active_model, last, clock, ut, polls>>

\* socket.getaddrinfo returns 0.0.0.0
WfpResolvedZero ==
    /\ wfp.pc = "resolve"
    /\ wfp' = Closed(Observe(wfp, "0.0.0.0"))
    /\ UNCHANGED <<scn, heap, models, active_model, last, clock, ut, polls>>

\* socket.getaddrinfo raises socket.error with errno e
WfpResolveError(e) ==
    /\ wfp.pc = "resolve"
    /\ wfp' = IF ResolveFatal(e)
              THEN Raise(Observe(wfp, e), e)
              ELSE Closed(Observe(wfp, e))
    /\ UNCHANGED <<scn, heap, models, active_model, last, clock, ut, polls>>

\* conn.connect succeeds: conn.close(), then return or sleep(1)
WfpConnected ==
    /\ wfp.pc = "connect"
    /\ LET f == [Observe(wfp, "connected")
                   EXCEPT !.attempts = Sat(wfp.attempts),
                          !.closes = Sat(wfp.closes)]
       IN  wfp' = IF OnOpen(f.closed) = "return"
                  THEN Return(f)
                  ELSE [f EXCEPT !.pc = "sleep"]
    /\ UNCHANGED <<scn, heap, models, active_model, last, clock, ut, polls>>

\* conn.connect raises socket.timeout
WfpConnectTimeout ==
    /\ wfp.pc = "connect"
    /\ wfp' = Closed([Observe(wfp, "socket.timeout")
                        EXCEPT !.attempts = Sat(wfp.attempts)])
    /\ UNCHANGED <<scn, heap, models, active_model, last, clock, ut, polls>>

\* conn.connect raises socket.error with errno e
WfpConnectError(e) ==
    /\ wfp.pc = "connect"
    /\ LET f == [Observe(wfp, e) EXCEPT !.attempts = Sat(wfp.attempts)]
       IN  wfp' = IF ConnectFatal(e) THEN Raise(f, e) ELSE Closed(f)
    /\ UNCHANGED <<scn, heap, models, active_model, last, clock, ut, polls>>

\* conn.connect raises an exception that is no socket error: the handler's
\* own format call (two fields, one argument) raises IndexError.
WfpConnectUnexpected ==
    /\ wfp.pc = "connect"
    /\ wfp' = Raise([Observe(wfp, "Exception")
                       EXCEPT !.attempts = Sat(wfp.attempts)], "IndexError")
    /\ UNCHANGED <<scn, heap, models, active_model, last, clock, ut, polls>>

\* sleep(1): the clock is at least a second further when the loop goes on.
\* (Readings from MaxTime on are all past every deadline.)
WfpSleep ==
    /\ wfp.pc = "sleep"
    /\ clock' = IF clock < MaxTime THEN clock + 1 ELSE clock
    /\ wfp' = [wfp EXCEPT !.pc = "next", !.slept = Sat(wfp.slept)]
    /\ UNCHANGED <<scn, heap, models, active_model, last, ut, polls>>

PortNext ==
    \/ Tick
    \/ \E c \in BOOLEAN, t \in PortTimeouts : WfpCall(c, t)
    \/ WfpNext
    \/ WfpResolved
    \/ WfpResolvedZero
    \/ \E e \in ResolveErrnos : WfpResolveError(e)
    \/ WfpConnected
    \/ WfpConnectTimeout
    \/ \E e \in ConnectErrnos : WfpConnectError(e)
    \/ WfpConnectUnexpected
    \/ WfpSleep

(***************************************************************************)
(* assess_multimodel_2.py                                                  *)
(***************************************************************************)

\* What juju returns when nothing is raised: the decoded output of the tool
\* when get_output is set; otherwise subprocess.call ran the tool, nothing
\* it printed was captured, and what comes back is its exit status.
juju_returns(get_output, o, output) ==
    IF get_output THEN output
    ELSE IF o = "exit0" THEN "0" ELSE "1"

\* What add_model returns: it has no return statement.
add_model_returns(new_model) == "None"

\* What the config command prints for dummy-sink's token.
ConfigOutputs == {"model1", "model2", "stale"}

\* No scenario is running.
ScnIdle ==
    scn = [ pc |-> "idle", phase |-> 0, model_one |-> "", model_two |-> "",
            ops |-> << >>, envOk |-> TRUE, vOut |-> "", vTok |-> "",
            vResult |-> "", expected |-> "", got |-> "", err |-> "" ]

\* get_testing_client(args): a client whose controller has one model, which
\* is active.
ScnInit ==
    /\ \E n \in Names :
          /\ heap = <<n>>
          /\ models = {1}
          /\ active_model = 1
    /\ last = [ op |-> "init", name |-> "", target |-> None, out |-> "exit0",
                raised |-> "none", logged |-> FALSE, runs |-> 0,
                models0 |-> {}, active0 |-> None ]
    /\ scn = [ pc |-> "start", phase |-> 1, model_one |-> "",
               model_two |-> "", ops |-> << >>, envOk |-> TRUE, vOut |-> "",
               vTok |-> "", vResult |-> "", expected |-> "", got |-> "",
               err |-> "" ]

\* client.get_current_model(): the name of the active model.
get_current_model == heap[active_model]

ScnModel == IF scn.phase = 1 THEN scn.model_one ELSE scn.model_two
ScnToken == IF scn.phase = 1 THEN "model1" ELSE "model2"

\* The frame after a command was issued with model=m and outcome o.
ScnIssued(f, cmd, m, o) ==
    [ f EXCEPT !.ops = Append(f.ops, [cmd |-> cmd, model |-> m, out |-> o]),
               !.envOk = f.envOk /\ o = "exit0" ]

ScnFailed(f, e) == [f EXCEPT !.pc = "failed", !.err = e]

\* assess_multimodel: its own statements, the first and the fourth.
ScnAssess(o) ==
    /\ scn.pc \in {"start", "add_model"}
    /\ IF scn.pc = "start"
       THEN /\ scn' = [scn EXCEPT !.pc = "sink",
                                  !.model_one = get_current_model]
            /\ UNCHANGED <<heap, models, active_model, last>>
       ELSE LET n == scn.model_one \o "model_two"
                new_model == Len(heap) + 1
                r == juju(FALSE, o)
                f == ScnIssued(scn, "add-model", n, o)
            IN  /\ last' = LastRec("add_model", n, new_model, o, r)
                /\ IF r.raised # "none"
                   THEN /\ scn' = ScnFailed(f, r.raised)
                        /\ UNCHANGED <<heap, models, active_model>>
                   ELSE /\ heap' = Append(heap, n)
                        /\ models' = SetAdd(heap', models, new_model)
                        /\ active_model' = new_model
                        /\ scn' = [f EXCEPT
                                     !.pc = "sink", !.phase = 2,
                                     !.model_two =
                                         add_model_returns(new_model)]
    /\ UNCHANGED <<clock, ut, polls, wfp>>

\* deploy_testing_charms(client, model, token): one command a step.
ScnDeployTestingCharms(o) ==
    /\ scn.pc \in {"sink", "source", "relate", "config"}
    /\ LET cmd == CASE scn.pc = "sink" -> "deploy dummy-sink"
                    [] scn.pc = "source" -> "deploy dummy-source"
                    [] scn.pc = "relate" -> "add-relation"
                    [] scn.pc = "config" -> "config token=" \o ScnToken
           nxt == CASE scn.pc = "sink" -> "source"
                    [] scn.pc = "source" -> "relate"
                    [] scn.pc = "relate" -> "config"
                    [] scn.pc = "config" -> "verify"
           r == juju(FALSE, o)
           f == ScnIssued(scn, cmd, ScnModel, o)
       IN  /\ last' = LastRec(IF scn.pc \in {"sink", "source"}
                              THEN "deploy" ELSE "juju", "", None, o, r)
           /\ scn' = IF r.raised # "none"
                     THEN ScnFailed(f, r.raised)
                     ELSE [f EXCEPT !.pc = nxt]
    /\ UNCHANGED <<heap, models, active_model, clock, ut, polls, wfp>>

\* verify_token(client, model, token): the config command prints output.
ScnVerifyToken(o, output) ==
    /\ scn.pc = "verify"
    /\ LET r == juju(FALSE, o)
           returned == juju_returns(FALSE, o, output)
           f == [ScnIssued(scn, "config token", ScnModel, o)
                   EXCEPT !.envOk = scn.envOk /\ o = "exit0"
                                      /\ output = ScnToken,
                          !.vOut = output, !.vTok = ScnToken]
       IN  /\ last' = LastRec("juju", "", None, o, r)
           /\ scn' =
                IF r.raised # "none"
                THEN [ScnFailed(f, r.raised) EXCEPT !.vResult = "raised"]
                ELSE IF ~(returned = ScnToken)
                THEN [ScnFailed(f, "Token mismatch")
                        EXCEPT !.vResult = "mismatch",
                               !.expected = ScnToken, !.got = returned]
                ELSE [f EXCEPT !.vResult = "ok",
                               !.pc = IF scn.phase = 1 THEN "add_model"
                                      ELSE "done"]
    /\ UNCHANGED <<heap, models, active_model, clock, ut, polls, wfp>>

ScenarioNext ==
    \/ \E o \in ToolOutcomes : ScnAssess(o)
    \/ \E o \in ToolOutcomes : ScnDeployTestingCharms(o)
    \/ \E o \in ToolOutcomes, v \in ConfigOutputs : ScnVerifyToken(o, v)

(***************************************************************************)
(* Specifications                                                          *)
(***************************************************************************)
Init == ClientInit /\ TimerInit /\ PortInit /\ ScnIdle

\* The scenario starts from a client that get_testing_client hands over.
InitScenario == ScnInit /\ TimerInit /\ PortInit

ClientNext ==
    \/ \E n \in Names : NewHandle(n)
    \/ \E n \in Names, o \in ToolOutcomes : add_model(n, o)
    \/ \E t \in Handles, o \in ToolOutcomes : switch_model(t, o)
    \/ \E o \in ToolOutcomes : deploy(o)
    \/ \E o \in ToolOutcomes : status(o)
    \/ \E g \in BOOLEAN, o \in ToolOutcomes : juju_call(g, o)

SpecClient == Init /\ [][ClientNext]_vars
SpecCounter == Init /\ [][CounterNext]_vars
SpecPort == Init /\ [][PortNext]_vars
SpecScenario == InitScenario /\ [][ScenarioNext]_vars

\* The steps of a wait_for_port call that is under way.
PortStep ==
    \/ WfpNext
    \/ WfpResolved
    \/ WfpResolvedZero
    \/ \E e \in ResolveErrnos : WfpResolveError(e)
    \/ WfpConnected
    \/ WfpConnectTimeout
    \/ \E e \in ConnectErrnos : WfpConnectError(e)
    \/ WfpConnectUnexpected
    \/ WfpSleep

\* wait_for_port runs in one thread that is not suspended for ever, every
\* call into the resolver and the socket layer comes back, and the clock
\* keeps advancing.
SpecPortFair == SpecPort /\ WF_vars(Tick) /\ WF_vars(PortStep)


(***************************************************************************)
(* Properties of the cluster client (SpecClient)                           *)
(***************************************************************************)

C3_AddModelInserts ==
    (last.op = "add_model" /\ last.raised = "none")
        => /\ Cardinality(models) = Cardinality(last.models0) + 1
           /\ last.models0 \subseteq models
           /\ active_model = last.target
           /\ active_model \in models \ last.models0
           /\ heap[active_model] = last.name

\* An add_model that returned, for a name that models already held.
C3_Witness ==
    /\ last.op = "add_model"
    /\ last.raised = "none"
    /\ Cardinality(last.models0) >= 2
    /\ \E x \in last.models0 : heap[x] = last.name

\* C4: when the add-model command exits non-zero, add_model fails with
\* ModelCreationFailed and models and active_model are what they were.
C4_AddModelFailure ==
    (last.op = "add_model" /\ last.out = "exit1")
        => /\ last.raised = "ModelCreationFailed"
           /\ models = last.models0
           /\ active_model = last.active0

C6_PositiveOrExhausted ==
    \A i \in 1..Len(polls) :
        ut.timeout > 0 =>
            LET elapsed == polls[i].at - ut.start
            IN  IF elapsed < ut.timeout
                THEN /\ ~polls[i].stop
                     /\ polls[i].value = ut.timeout - elapsed
                     /\ polls[i].value > 0
                ELSE polls[i].stop

\* A value is returned, and the next poll falls exactly on the deadline.
C6_Witness ==
    /\ Len(polls) >= 2
    /\ ut.timeout > 0
    /\ ~polls[1].stop
    /\ polls[2].stop
    /\ polls[2].at - ut.start = ut.timeout

\* C7: of two successive next() calls that both return a value, the second
\* made at a later clock reading, the second returns the smaller value.
C7_StrictlyDecreasing ==
    \A i \in 1..(Len(polls) - 1) :
        (~polls[i].stop /\ ~polls[i + 1].stop /\ polls[i + 1].at > polls[i].at)
            => polls[i + 1].value < polls[i].value

\* Three values returned at three readings, each later than the one before.
C7_Witness ==
    /\ Len(polls) >= 3
    /\ \A i \in 1..3 : ~polls[i].stop
    /\ polls[1].at < polls[2].at
    /\ polls[2].at < polls[3].at

(***************************************************************************)
(* Properties of the port waiter (SpecPort)                                *)
(***************************************************************************)

\* C8: closed=False, timeout > 0.  A first poll whose connection is accepted
\* ends the call with a normal return after one connection attempt.  While
\* every poll's connection is refused the call has not returned, and it ends
\* only in PortTimeoutError, with the counter exhausted.
C8_OpenTarget ==
    (ut.made /\ ut.timeout > 0 /\ ~wfp.closed) =>
        /\ wfp.obs1 = "connected" =>
              /\ wfp.pc = "done"
              /\ wfp.result = "returned"
              /\ wfp.attempts = 1
              /\ wfp.npolls = 1
        /\ wfp.allRefused =>
              /\ wfp.result # "returned"
              /\ wfp.pc = "done" =>
                    /\ wfp.result = "PortTimeoutError"
                    /\ next(ut, clock).stop

\* Two refused connections, then PortTimeoutError.
C8_Witness ==
    /\ ~wfp.closed
    /\ wfp.allRefused
    /\ wfp.attempts >= 2
    /\ wfp.pc = "done"
    /\ wfp.result = "PortTimeoutError"

\* C9: closed=True, timeout > 0.  A first poll whose connection is refused
\* ends the call with a normal return at once.  While every poll's
\* connection succeeds the call has closed each connection, slept after
\* each, not returned, and it ends only in PortTimeoutError, with the
\* counter exhausted.
C9_ClosedTarget ==
    (ut.made /\ ut.timeout > 0 /\ wfp.closed) =>
        /\ wfp.obs1 = "ECONNREFUSED" =>
              /\ wfp.pc = "done"
              /\ wfp.result = "returned"
              /\ wfp.attempts = 1
              /\ wfp.npolls = 1
              /\ wfp.slept = 0
        /\ wfp.allConnected =>
              /\ wfp.result # "returned"
              /\ wfp.closes = wfp.attempts
              /\ wfp.attempts < MaxPolls =>
                    wfp.slept = wfp.attempts
                                  - (IF wfp.pc = "sleep" THEN 1 ELSE 0)
              /\ wfp.pc = "done" =>
                    /\ wfp.result = "PortTimeoutError"
                    /\ next(ut, clock).stop

\* Two accepted connections, each closed and slept after, then
\* PortTimeoutError.
C9_Witness ==
    /\ wfp.closed
    /\ wfp.allConnected
    /\ wfp.attempts >= 2
    /\ wfp.pc = "done"
    /\ wfp.result = "PortTimeoutError"

\* C10: a socket error outside the enumerated ones ends the wait in the poll
\* that observed it, and what is raised is that error.
C10_FatalPropagates ==
    LET fatal ==
          \/ wfp.obs \in ResolveErrnos \ {"EAI_NODATA", "WSANO_DATA"}
          \/ wfp.obs \in ConnectErrnos \ {"ECONNREFUSED", "ENETUNREACH",
                                          "ETIMEDOUT", "EHOSTUNREACH"}
    IN  fatal => /\ wfp.pc = "done"
                 /\ wfp.result = "raised"
                 /\ wfp.err = wfp.obs

\* A connection reset in a later poll of a closed=True wait.
C10_Witness ==
    /\ wfp.closed
    /\ wfp.npolls >= 2
    /\ wfp.obs = "ECONNRESET"
    /\ wfp.result = "raised"

(***************************************************************************)
(* Properties of the command runner (SpecClient)                           *)
(***************************************************************************)

\* C11: when the external command exits non-zero, a call of juju raises the
\* command-failed error, in either mode.
C11_NonZeroRaises ==
    (last.op = "juju" /\ last.out = "exit1")
        => last.raised = "CalledProcessError"

(***************************************************************************)
(* Termination of the port waiter (SpecPortFair)                           *)
(***************************************************************************)

\* C12: a wait_for_port call that has started ends; it ends in exactly one
\* of a normal return, a raised error and PortTimeoutError; and a poll that
\* finds the counter exhausted ends it in PortTimeoutError.
C12_Terminates ==
    /\ (wfp.pc # "idle") ~> (wfp.pc = "done")
    /\ [](IF wfp.pc = "done"
          THEN wfp.result \in {"returned", "raised", "PortTimeoutError"}
          ELSE wfp.result = "")
    /\ [][(wfp.pc = "next" /\ next(ut, clock).stop /\ wfp' # wfp)
            => (wfp'.pc = "done" /\ wfp'.result = "PortTimeoutError")]_vars

\* A closed=True wait that slept at least once and ended in PortTimeoutError.
C12_Witness ==
    /\ wfp.pc = "done"
    /\ wfp.result = "PortTimeoutError"
    /\ wfp.closed
    /\ wfp.slept >= 1

(***************************************************************************)
(* Properties of the multi-model scenario (SpecScenario)                   *)
(***************************************************************************)

\* The five operations of one model's sequence, in order, each with model=m.
ModelSequence(m, token) ==
    << [cmd |-> "deploy dummy-sink", model |-> m],
       [cmd |-> "deploy dummy-source", model |-> m],
       [cmd |-> "add-relation", model |-> m],
       [cmd |-> "config token=" \o token, model |-> m],
       [cmd |-> "config token", model |-> m] >>

C14_VerifyToken ==
    (scn.vResult # "" /\ last.out = "exit0") =>
        /\ (scn.vResult = "ok") <=> (scn.vOut = scn.vTok)
        /\ scn.vResult = "mismatch" =>
              (scn.expected = scn.vTok /\ scn.got = scn.vOut)

(***************************************************************************)
(* More properties of the deadline counter (SpecCounter)                   *)
(***************************************************************************)

\* C15: no step changes a counter's start or timeout once it is built, and
\* once a next() has stopped every later next() on the counter stops too.
C15_NonRestartable ==
    /\ [][ut.made => ut' = ut]_vars
    /\ [](\A i \in 1..Len(polls), j \in 1..Len(polls) :
            (i < j /\ polls[i].stop) => polls[j].stop)

\* A value, then exhaustion, then exhaustion again at a later reading.
C15_Witness ==
    /\ Len(polls) >= 3
    /\ ~polls[1].stop
    /\ polls[2].stop
    /\ polls[3].stop
    /\ polls[3].at > polls[2].at

(***************************************************************************)
(* More properties of the port waiter (SpecPort)                           *)
(***************************************************************************)

\* C16: a poll whose resolution fails with DNS no-data, or resolves to
\* 0.0.0.0, makes no connection attempt; it ends the call with a normal
\* return when closed=True and goes to the next poll when closed=False.
C16_NoDataIsClosed ==
    [][(/\ wfp.pc = "resolve"
        /\ wfp' # wfp
        /\ wfp'.pc # "connect"
        /\ wfp'.obs \in {"EAI_NODATA", "WSANO_DATA", "0.0.0.0"})
       => /\ wfp'.attempts = wfp.attempts
          /\ IF wfp.closed
             THEN wfp'.pc = "done" /\ wfp'.result = "returned"
             ELSE wfp'.pc = "next" /\ wfp'.result = ""]_vars

\* A closed=False wait back at the head of its loop after a 0.0.0.0, with
\* no connection attempted.
C16_Witness ==
    /\ ~wfp.closed
    /\ wfp.obs = "0.0.0.0"
    /\ wfp.pc = "next"
    /\ wfp.attempts = 0

\* C17: every connection attempt is made with a timeout of max(remaining, 5)
\* for the remaining value of its poll, so never with less than 5 seconds.
C17_ConnectTimeout ==
    wfp.pc = "connect" =>
        /\ wfp.remaining > 0
        /\ wfp.conn_timeout >= 5
        /\ wfp.conn_timeout >= wfp.remaining
        /\ wfp.conn_timeout \in {wfp.remaining, 5}

\* A connection attempt with fewer than 5 seconds remaining.
C17_Witness ==
    /\ wfp.pc = "connect"
    /\ wfp.remaining < 5
    /\ wfp.conn_timeout = 5
    /\ wfp.npolls >= 2

(***************************************************************************)
(* More properties of the cluster client (SpecClient)                      *)
(***************************************************************************)

\* C18: switch_model, deploy, status and juju leave models as it was, and
\* deploy, status and juju leave active_model as it was, whatever the
\* command did; a switch_model that returned has set active_model to its
\* target.
C18_Frame ==
    /\ last.op \in {"switch_model", "deploy", "status", "juju"}
          => models = last.models0
    /\ last.op \in {"deploy", "status", "juju"}
          => active_model = last.active0
    /\ last.op = "switch_model" =>
          active_model = IF last.raised = "none" THEN last.target
                         ELSE last.active0
    /\ models # last.models0 => last.op = "add_model"

\* A switch_model that returned and moved active_model inside a client that
\* knows two models.
C18_Witness ==
    /\ last.op = "switch_model"
    /\ last.raised = "none"
    /\ active_model # last.active0
    /\ Cardinality(models) >= 2
    /\ active_model \in models

C20_NoFalseSuccess ==
    /\ wfp.result = "returned" =>
          /\ wfp.npolls >= 1
          /\ wfp.remaining > 0
          /\ IF wfp.closed
             THEN wfp.obs \in {"EAI_NODATA", "WSANO_DATA", "0.0.0.0",
                               "socket.timeout", "ECONNREFUSED",
                               "ENETUNREACH", "ETIMEDOUT", "EHOSTUNREACH"}
             ELSE wfp.obs = "connected"
    /\ (ut.made /\ ut.timeout <= 0 /\ wfp.pc # "idle") =>
          /\ wfp.npolls = 0
          /\ wfp.attempts = 0
          /\ wfp.obs = ""
          /\ wfp.pc \in {"next", "done"}
          /\ wfp.pc = "done" => wfp.result = "PortTimeoutError"

\* A closed=True wait that returned on a connect timeout in a later poll.
C20_Witness ==
    /\ wfp.result = "returned"
    /\ wfp.closed
    /\ wfp.obs = "socket.timeout"
    /\ wfp.npolls >= 2

====
